---- MODULE Spec2Model ----
(***************************************************************************)
(* A model of static/js/app.js, the browser glue of the Albion Market      *)
(* Flipper dashboard: the status poller (startAutoRefresh, refreshData),   *)
(* the render step (updateStatus and the helpers it calls), the browser    *)
(* lifecycle listeners, the quantity-field validation listener and the     *)
(* table utilities (sortTable, filterTable, exportTableToCSV).             *)
(*                                                                         *)
(* Text is modelled as a sequence of one-character strings, so that        *)
(* parseInt, toLocaleString, trim and the regular-expression replacements  *)
(* are computed character by character, as the browser computes them.      *)
(* A JavaScript value that may be undefined or null is a sequence of       *)
(* length at most one: <<>> is undefined/null, <<v>> is the value v.       *)
(***************************************************************************)
EXTENDS Integers, Sequences, FiniteSets, TLC

\* ------------------------------------------------------------------ bounds
\* Timer ids handed out by setInterval are 1..MaxTimers.
MaxTimers == 3
\* At most MaxInFlight fetches are pending at once.
MaxInFlight == 2
\* lastUpdateTime is a logical clock reading in 0..MaxTime.
MaxTime == 3
\* A quantity field is given texts of at most MaxEntered characters.
MaxEntered == 2

\* ------------------------------------------------------------- text helpers
DigitChars == <<"0", "1", "2", "3", "4", "5", "6", "7", "8", "9">>

IsDigit(c) == \E i \in 1..10 : DigitChars[i] = c

DigitVal(c) == (CHOOSE i \in 1..10 : DigitChars[i] = c) - 1

IsSpace(c) == c = " "

RECURSIVE NatToStr(_)
NatToStr(n) ==
    IF n < 10 THEN <<DigitChars[n + 1]>>
    ELSE NatToStr(n \div 10) \o <<DigitChars[(n % 10) + 1]>>

\* String(n) for an integer n.
NumToStr(n) == IF n < 0 THEN <<"-">> \o NatToStr(-n) ELSE NatToStr(n)

RECURSIVE DigitsToNat(_)
DigitsToNat(ds) ==
    IF ds = <<>> THEN 0
    ELSE DigitsToNat(SubSeq(ds, 1, Len(ds) - 1)) * 10 + DigitVal(ds[Len(ds)])

RECURSIVE DigitsPrefix(_)
DigitsPrefix(s) ==
    IF s = <<>> \/ ~IsDigit(Head(s)) THEN <<>>
    ELSE <<Head(s)>> \o DigitsPrefix(Tail(s))

RECURSIVE TrimStart(_)
TrimStart(s) == IF s # <<>> /\ IsSpace(Head(s)) THEN TrimStart(Tail(s)) ELSE s

RECURSIVE TrimEnd(_)
TrimEnd(s) ==
    IF s # <<>> /\ IsSpace(s[Len(s)]) THEN TrimEnd(SubSeq(s, 1, Len(s) - 1)) ELSE s

\* String.prototype.trim
Trim(s) == TrimEnd(TrimStart(s))

NaN == [nan |-> TRUE, val |-> 0]

Num(n) == [nan |-> FALSE, val |-> n]

\* parseInt(s): leading white space is skipped, one sign is read, then the
\* longest run of digits; NaN when there is no digit.
parseInt(s) ==
    LET t == TrimStart(s)
        neg == t # <<>> /\ Head(t) = "-"
        signed == t # <<>> /\ Head(t) \in {"-", "+"}
        ds == DigitsPrefix(IF signed THEN Tail(t) ELSE t)
    IN IF ds = <<>> THEN NaN
       ELSE Num(IF neg THEN -DigitsToNat(ds) ELSE DigitsToNat(ds))

\* x || 0 for a number x: NaN and 0 are falsy.
OrZero(x) == IF x.nan THEN 0 ELSE x.val

\* s.replace(/,/g, '')
StripCommas(s) == SelectSeq(s, LAMBDA c : c # ",")

\* The host's default locale decides the grouping separator of
\* Number.prototype.toLocaleString(): "," in en-US, "." in de-DE.
Locales == {"en-US", "de-DE"}

GroupSeparator(loc) == IF loc = "en-US" THEN "," ELSE "."

RECURSIVE GroupDigits(_, _)
GroupDigits(ds, sep) ==
    IF Len(ds) <= 3 THEN ds
    ELSE GroupDigits(SubSeq(ds, 1, Len(ds) - 3), sep) \o <<sep>>
         \o SubSeq(ds, Len(ds) - 2, Len(ds))

\* n.toLocaleString() for an integer n in the locale loc.
toLocaleString(n, loc) ==
    IF n < 0 THEN <<"-">> \o GroupDigits(NatToStr(-n), GroupSeparator(loc))
    ELSE GroupDigits(NatToStr(n), GroupSeparator(loc))

\* ------------------------------------------------------------ poller state
VARIABLES
    path,                \* window.location.pathname
    locale,              \* the host's default locale
    elements,            \* the selectors that match an element of the page
    loaded,              \* DOMContentLoaded has been dispatched
    onLine,              \* navigator.onLine
    signalled,           \* an 'online' or 'offline' event has been dispatched
    autoRefreshInterval, \* 0 is null, otherwise a timer id
    timers,              \* the armed interval timers
    nextTimerId,         \* the id the next setInterval call returns
    inflight,            \* pending fetches, by what issued them
    connectionStatus,    \* "true", "false" or "undefined"
    lastUpdateTime,      \* the reading of the clock taken by updateLastUpdateTime
    dom,                 \* the text and classes of the status elements
    lastGood,            \* history: the counters of the latest poll that succeeded
    quantity,            \* the quantity field: its max attribute and its value
    table,               \* the table the utilities are called on
    download,            \* the CSV file handed to the browser: <<>> or <<text>>
    thrown               \* the exception the last utility call ended with, or "none"

envVars == <<path, locale, elements>>

lifeVars == <<loaded, onLine, signalled>>

timerVars == <<autoRefreshInterval, timers, nextTimerId>>

viewVars == <<connectionStatus, lastUpdateTime, dom>>

tableVars == <<table, download, thrown>>

vars ==
    <<path, locale, elements, loaded, onLine, signalled, autoRefreshInterval,
      timers, nextTimerId, inflight, connectionStatus, lastUpdateTime, dom,
      lastGood, quantity, table, download, thrown>>

Paths == {"/", "/arbitrage", "/settings"}

Selectors ==
    {".connection-indicator", ".player-info", ".location-info",
     ".offers-count", ".requests-count", ".last-update-time"}

CounterSelectors == {".offers-count", ".requests-count"}

\* The pages the model is run on: every status element present, none present,
\* and one counter element missing.
ElementSets == {Selectors, {}, Selectors \ {".requests-count"}}

Origins == {"timer", "manual"}

\* ---------------------------------------------------------------- snapshots
CountValues == {1, 1234}

\* A JSON object with the fields of /api/status; a field that is missing or
\* null is <<>>. The location is sent with the player.
Snapshot(conn, player, offers, requests) ==
    [connection_established |-> conn,
     current_player |-> player,
     current_location |-> IF player = <<>> THEN <<>> ELSE <<"Lymhurst">>,
     offers_count |-> offers,
     requests_count |-> requests]

\* JSON bodies of the /api/status shape.
GoodSnapshots ==
    {Snapshot(c, p, <<o>>, <<q>>) :
        c \in {"true", "false"}, p \in {<<>>, <<"Bob">>},
        o \in CountValues, q \in CountValues}

\* JSON objects that are not of the /api/status shape: a counter or the
\* connection flag is missing.
BadSnapshots ==
    {Snapshot("true", p, o, <<>>) : p \in {<<>>, <<"Bob">>}, o \in {<<>>, <<1234>>}}
    \cup {Snapshot("undefined", <<>>, <<1234>>, <<1>>)}

Snapshots == GoodSnapshots \cup BadSnapshots

WellShaped(data) ==
    /\ data.connection_established \in {"true", "false"}
    /\ data.offers_count # <<>>
    /\ data.requests_count # <<>>

NoData == Snapshot("undefined", <<>>, <<>>, <<>>)

\* What a fetch of /api/status ends with: a network error (net = FALSE), or a
\* response with a 2xx status (ok) or another one, whose body parses as JSON
\* (json) to the object data, or does not.
Responses ==
    {[net |-> FALSE, ok |-> FALSE, json |-> FALSE, data |-> NoData]}
    \cup {[net |-> TRUE, ok |-> o, json |-> FALSE, data |-> NoData] : o \in BOOLEAN}
    \cup {[net |-> TRUE, ok |-> o, json |-> TRUE, data |-> d] :
            o \in BOOLEAN, d \in Snapshots}

\* Failure of a poll as the interface defines it, whatever the code does with
\* the response: a network error, a non-2xx status, a body that is not JSON,
\* or a JSON body that is not of the /api/status shape. Only the history
\* variable lastGood and the properties read it.
IsFailure(r) == ~r.net \/ ~r.ok \/ ~r.json \/ ~WellShaped(r.data)

\* ------------------------------------------------------------------ render
\* The status elements as the server rendered them.
InitialDom ==
    [indicator |-> "unset",
     player |-> "Alice",
     location |-> "Martlock",
     count |-> [sel \in CounterSelectors |-> <<"1">>],
     fade |-> [sel \in CounterSelectors |-> FALSE],
     fadeTimer |-> [sel \in CounterSelectors |-> FALSE],
     time |-> 0]

\* updateConnectionIndicator() with connectionStatus = cs: every indicator
\* element gets the connected or the disconnected class and title.
updateConnectionIndicator(d, cs) ==
    IF ".connection-indicator" \in elements
    THEN [d EXCEPT !.indicator = IF cs = "true" THEN "Connected" ELSE "Disconnected"]
    ELSE d

\* updateCountWithAnimation(selector, newValue). newValue.toLocaleString()
\* throws a TypeError when newValue is undefined, after the class was added and
\* before the text is written and the removal of the class is scheduled.
updateCountWithAnimation(d, selector, newValue) ==
    IF selector \notin elements THEN [dom |-> d, threw |-> FALSE]
    ELSE LET currentValue == OrZero(parseInt(StripCommas(d.count[selector])))
         IN IF newValue = <<>>
            THEN [dom |-> [d EXCEPT !.fade[selector] = TRUE], threw |-> TRUE]
            ELSE IF currentValue # newValue[1]
            THEN [dom |-> [d EXCEPT !.fade[selector] = TRUE,
                                    !.count[selector] = toLocaleString(newValue[1], locale),
                                    !.fadeTimer[selector] = TRUE],
                  threw |-> FALSE]
            ELSE [dom |-> d, threw |-> FALSE]

\* updateStatus(data): the connection state and the elements after the call,
\* and whether it threw (the state then is the one reached when it threw).
updateStatus(d, data) ==
    LET cs == data.connection_established
        d1 == updateConnectionIndicator(d, cs)
        d2 == IF ".player-info" \in elements /\ data.current_player # <<>>
              THEN [d1 EXCEPT !.player = data.current_player[1]] ELSE d1
        d3 == IF ".location-info" \in elements /\ data.current_location # <<>>
              THEN [d2 EXCEPT !.location = data.current_location[1]] ELSE d2
        r4 == updateCountWithAnimation(d3, ".offers-count", data.offers_count)
        r5 == updateCountWithAnimation(r4.dom, ".requests-count", data.requests_count)
    IN IF r4.threw THEN [connectionStatus |-> cs, dom |-> r4.dom, threw |-> TRUE]
       ELSE [connectionStatus |-> cs, dom |-> r5.dom, threw |-> r5.threw]

\* updateLastUpdateTime(): a new reading of the clock, written to every time
\* element.
updateLastUpdateTime(d, t) ==
    IF ".last-update-time" \in elements THEN [d EXCEPT !.time = t] ELSE d

\* The .catch handler of refreshData.
CatchHandler(d) ==
    [connectionStatus |-> "false", dom |-> updateConnectionIndicator(d, "false"),
     time |-> lastUpdateTime]

\* The promise chain of refreshData on the response r: fetch rejects on a
\* network error and response.json() on a body that is not JSON; the second
\* .then renders and stamps; .catch handles a rejection of any of them.
refreshSettled(r) ==
    IF ~r.net \/ ~r.json THEN CatchHandler(dom)
    ELSE LET u == updateStatus(dom, r.data)
         IN IF u.threw THEN CatchHandler(u.dom)
            ELSE [connectionStatus |-> u.connectionStatus,
                  dom |-> updateLastUpdateTime(u.dom, lastUpdateTime + 1),
                  time |-> lastUpdateTime + 1]

\* ------------------------------------------------------------------ poller
AutoRefreshPages == {"/", "/arbitrage"}

\* startAutoRefresh() without the test of the current page.
startAutoRefreshOnAnyPage ==
    [handle |-> nextTimerId, timers |-> timers \cup {nextTimerId},
     next |-> nextTimerId + 1]

\* startAutoRefresh(): the handle, the armed timers and the next timer id
\* after the call.
startAutoRefresh ==
    IF path \in AutoRefreshPages
    THEN [handle |-> nextTimerId, timers |-> timers \cup {nextTimerId},
          next |-> nextTimerId + 1]
    ELSE [handle |-> autoRefreshInterval, timers |-> timers, next |-> nextTimerId]

PollerInit ==
    /\ path \in Paths
    /\ locale \in Locales
    /\ elements \in ElementSets
    /\ loaded = FALSE
    /\ onLine \in BOOLEAN
    /\ signalled = FALSE
    /\ autoRefreshInterval = 0
    /\ timers = {}
    /\ nextTimerId = 1
    /\ inflight = [o \in Origins |-> 0]
    /\ connectionStatus = "false"
    /\ lastUpdateTime = 0
    /\ dom = InitialDom
    /\ lastGood = <<>>

\* The DOMContentLoaded listener: initializeApp, setupEventListeners,
\* startAutoRefresh.
DOMContentLoaded ==
    /\ ~loaded
    /\ lastUpdateTime < MaxTime
    /\ nextTimerId <= MaxTimers
    /\ loaded' = TRUE
    /\ lastUpdateTime' = lastUpdateTime + 1
    /\ dom' = updateLastUpdateTime(dom, lastUpdateTime + 1)
    /\ autoRefreshInterval' = startAutoRefresh.handle
    /\ timers' = startAutoRefresh.timers
    /\ nextTimerId' = startAutoRefresh.next
    /\ UNCHANGED <<envVars, onLine, signalled, inflight, connectionStatus,
                   lastGood, quantity, tableVars>>

\* The 'online' listener.
Online ==
    /\ ~onLine
    /\ nextTimerId <= MaxTimers
    /\ onLine' = TRUE
    /\ signalled' = TRUE
    /\ IF autoRefreshInterval = 0
       THEN /\ autoRefreshInterval' = startAutoRefresh.handle
            /\ timers' = startAutoRefresh.timers
            /\ nextTimerId' = startAutoRefresh.next
       ELSE UNCHANGED timerVars
    /\ UNCHANGED <<envVars, loaded, inflight, viewVars, lastGood, quantity,
                   tableVars>>

\* The 'offline' listener.
Offline ==
    /\ onLine
    /\ onLine' = FALSE
    /\ signalled' = TRUE
    /\ IF autoRefreshInterval # 0
       THEN /\ timers' = timers \ {autoRefreshInterval}
            /\ autoRefreshInterval' = 0
       ELSE UNCHANGED <<autoRefreshInterval, timers>>
    /\ UNCHANGED <<envVars, loaded, nextTimerId, inflight, viewVars, lastGood,
                   quantity, tableVars>>

\* The 'beforeunload' listener, where it clears a timer that is armed; the
\* page lives on when the navigation is cancelled or ends in a download.
BeforeUnload ==
    /\ autoRefreshInterval # 0
    /\ autoRefreshInterval \in timers
    /\ timers' = timers \ {autoRefreshInterval}
    /\ UNCHANGED <<envVars, lifeVars, autoRefreshInterval, nextTimerId, inflight,
                   viewVars, lastGood, quantity, tableVars>>

\* refreshData() up to the return of fetch: one more request is pending.
refreshData(origin) ==
    /\ inflight["timer"] + inflight["manual"] < MaxInFlight
    /\ inflight' = [inflight EXCEPT ![origin] = @ + 1]

\* An armed interval timer fires.
TimerTick ==
    /\ timers # {}
    /\ refreshData("timer")
    /\ UNCHANGED <<envVars, lifeVars, timerVars, viewVars, lastGood, quantity,
                   tableVars>>

\* The keydown listener on Ctrl/Cmd+R.
ManualRefresh ==
    /\ refreshData("manual")
    /\ UNCHANGED <<envVars, lifeVars, timerVars, viewVars, lastGood, quantity,
                   tableVars>>

\* The fetch issued by origin settles with the response r and the promise
\* chain of refreshData runs.
PollCompletes(origin, r) ==
    /\ inflight[origin] > 0
    /\ LET after == refreshSettled(r)
       IN /\ after.time <= MaxTime
          /\ connectionStatus' = after.connectionStatus
          /\ dom' = after.dom
          /\ lastUpdateTime' = after.time
    /\ inflight' = [inflight EXCEPT ![origin] = @ - 1]
    /\ lastGood' = IF IsFailure(r) THEN lastGood
                   ELSE <<[offers |-> r.data.offers_count[1],
                           requests |-> r.data.requests_count[1]]>>
    /\ UNCHANGED <<envVars, lifeVars, timerVars, quantity, tableVars>>

PollSettles == \E origin \in Origins, r \in Responses : PollCompletes(origin, r)

\* The timeout set by updateCountWithAnimation removes the transition class.
FadeTimeout ==
    \E sel \in CounterSelectors :
        /\ dom.fadeTimer[sel]
        /\ dom' = [dom EXCEPT !.fade[sel] = FALSE, !.fadeTimer[sel] = FALSE]
        /\ UNCHANGED <<envVars, lifeVars, timerVars, inflight, connectionStatus,
                       lastUpdateTime, lastGood, quantity, tableVars>>

\* ---------------------------------------------------------- quantity field
\* The characters typed into a quantity field, and the texts of at most
\* MaxEntered of them.
QuantityAlphabet == {"0", "1", "5", "9", "-", "a"}

EnteredValues ==
    UNION {[1..n -> QuantityAlphabet] : n \in 0..MaxEntered}

\* The max attribute of the field: missing, below 1, or a positive number.
MaxAttributes == {<<>>, <<"0">>, <<"-", "1">>, <<"1">>, <<"5">>, <<"1", "0">>}

\* a > b and a < b on numbers: false when either is NaN.
Greater(a, b) == ~a.nan /\ ~b.nan /\ a.val > b.val

Less(a, b) == ~a.nan /\ ~b.nan /\ a.val < b.val

\* The 'input' listener of a quantity field q, with this = q. Both tests read
\* the value parsed on entry.
quantityInputListener(q) ==
    LET max == parseInt(q.max)
        value == parseInt(q.value)
        q1 == IF Greater(value, max) THEN [q EXCEPT !.value = NumToStr(max.val)] ELSE q
    IN IF Less(value, Num(1)) THEN [q1 EXCEPT !.value = <<"1">>] ELSE q1

QuantityInit ==
    /\ quantity \in [max : MaxAttributes, value : {<<"1">>}]

\* The user edits the field to the text typed and the browser dispatches
\* 'input'; the listener is attached by setupEventListeners.
QuantityInput(typed) ==
    /\ loaded
    /\ quantity' = quantityInputListener([quantity EXCEPT !.value = typed])
    /\ UNCHANGED <<envVars, lifeVars, timerVars, inflight, viewVars, lastGood,
                   tableVars>>

QuantityEdited == \E typed \in EnteredValues : QuantityInput(typed)

\* ------------------------------------------------------------------ tables
Quote == "\""

NewLine == "\n"

\* The order localeCompare puts the characters of the cells in.
Collation ==
    <<" ", ",", Quote, "0", "1", "2", "3", "4", "5", "6", "7", "8", "9",
      "a", "A", "b", "B", "c", "C", "n", "N", "q", "Q">>

CharRank(c) == CHOOSE i \in 1..Len(Collation) : Collation[i] = c

\* String.prototype.toLowerCase, on the characters of the cells.
LowerChar(c) ==
    CASE c = "A" -> "a"
      [] c = "B" -> "b"
      [] c = "C" -> "c"
      [] c = "N" -> "n"
      [] c = "Q" -> "q"
      [] OTHER -> c

toLowerCase(s) == [i \in 1..Len(s) |-> LowerChar(s[i])]

\* String.prototype.includes
Includes(s, part) ==
    \E i \in 1..(Len(s) + 1) :
        /\ i + Len(part) - 1 <= Len(s)
        /\ SubSeq(s, i, i + Len(part) - 1) = part

\* a.localeCompare(b): -1, 0 or 1.
RECURSIVE localeCompare(_, _)
localeCompare(a, b) ==
    IF a = <<>> /\ b = <<>> THEN 0
    ELSE IF a = <<>> THEN -1
    ELSE IF b = <<>> THEN 1
    ELSE IF CharRank(Head(a)) < CharRank(Head(b)) THEN -1
    ELSE IF CharRank(Head(a)) > CharRank(Head(b)) THEN 1
    ELSE localeCompare(Tail(a), Tail(b))

\* s.replace(/[^0-9.-]/g, '')
StripNonNumeric(s) == SelectSeq(s, LAMBDA c : IsDigit(c) \/ c \in {".", "-"})

\* parseFloat on the stripped text of a cell; the cells hold no decimal point,
\* so the number read is the one parseInt reads.
parseFloat(s) == parseInt(s)

\* The comparator of sortTable on the rows a and b; a NaN result counts as 0.
CompareRows(a, b, columnIndex, isNumeric, newDir) ==
    LET aVal == Trim(a.cells[columnIndex + 1])
        bVal == Trim(b.cells[columnIndex + 1])
        aNum == parseFloat(StripNonNumeric(aVal))
        bNum == parseFloat(StripNonNumeric(bVal))
        comparison ==
            IF isNumeric
            THEN IF aNum.nan \/ bNum.nan THEN 0 ELSE aNum.val - bNum.val
            ELSE localeCompare(aVal, bVal)
    IN IF newDir = "asc" THEN comparison ELSE -comparison

\* Array.prototype.sort with that comparator: a stable sort.
RECURSIVE InsertRow(_, _, _, _, _)
InsertRow(sorted, row, columnIndex, isNumeric, newDir) ==
    IF sorted = <<>> THEN <<row>>
    ELSE IF CompareRows(sorted[Len(sorted)], row, columnIndex, isNumeric, newDir) <= 0
    THEN Append(sorted, row)
    ELSE Append(InsertRow(SubSeq(sorted, 1, Len(sorted) - 1), row, columnIndex,
                          isNumeric, newDir),
                sorted[Len(sorted)])

RECURSIVE SortRows(_, _, _, _)
SortRows(rows, columnIndex, isNumeric, newDir) ==
    IF rows = <<>> THEN <<>>
    ELSE InsertRow(SortRows(SubSeq(rows, 1, Len(rows) - 1), columnIndex, isNumeric,
                            newDir),
                   rows[Len(rows)], columnIndex, isNumeric, newDir)

\* The direction sortTable chooses from the sort state kept in the dataset.
NewDirection(t, columnIndex) ==
    LET currentSort == t.sortColumn
        currentDir == IF t.sortDirection = <<>> THEN "asc" ELSE t.sortDirection[1]
    IN IF currentSort = <<NumToStr(columnIndex)>> /\ currentDir = "asc"
       THEN "desc" ELSE "asc"

\* sortTable(tableId, columnIndex, isNumeric) on the table t: the table after
\* the call and the exception it ended with. tbody.querySelectorAll throws on
\* a table without tbody, and the comparator on a row without the cell; the
\* comparator runs when there are two rows or more.
sortTable(t, columnIndex, isNumeric) ==
    IF ~t.exists THEN [table |-> t, thrown |-> "none"]
    ELSE IF ~t.tbody THEN [table |-> t, thrown |-> "TypeError"]
    ELSE IF /\ Len(t.rows) >= 2
            /\ \E i \in 1..Len(t.rows) : Len(t.rows[i].cells) <= columnIndex
    THEN [table |-> t, thrown |-> "TypeError"]
    ELSE LET newDir == NewDirection(t, columnIndex)
         IN [table |->
                [t EXCEPT
                   !.rows = SortRows(t.rows, columnIndex, isNumeric, newDir),
                   !.sortColumn = <<NumToStr(columnIndex)>>,
                   !.sortDirection = <<newDir>>,
                   !.headers =
                       [i \in 1..Len(t.headers) |->
                           [t.headers[i] EXCEPT
                              !.class = IF i - 1 = columnIndex
                                        THEN IF newDir = "asc" THEN "sort-asc"
                                             ELSE "sort-desc"
                                        ELSE ""]]],
             thrown |-> "none"]

\* filterTable(tableId, filterValue, columnIndex) on the table t.
filterTable(t, filterValue, columnIndex) ==
    IF ~t.exists THEN [table |-> t, thrown |-> "none"]
    ELSE LET filter == toLowerCase(filterValue)
             Shown(row) ==
                 LET text == IF Len(row.cells) > columnIndex
                             THEN toLowerCase(row.cells[columnIndex + 1]) ELSE <<>>
                 IN Includes(text, filter)
         IN [table |->
                [t EXCEPT
                   !.rows = [i \in 1..Len(t.rows) |->
                               [t.rows[i] EXCEPT
                                  !.display = IF Shown(t.rows[i]) THEN "" ELSE "none"]]],
             thrown |-> "none"]

\* text.replace(/"/g, '""')
RECURSIVE DoubleQuotes(_)
DoubleQuotes(s) ==
    IF s = <<>> THEN <<>>
    ELSE (IF Head(s) = Quote THEN <<Quote, Quote>> ELSE <<Head(s)>>)
         \o DoubleQuotes(Tail(s))

\* One field of the CSV file.
CsvField(cellText) ==
    LET text == Trim(cellText)
    IN IF Includes(text, <<",">>) \/ Includes(text, <<Quote>>)
       THEN <<Quote>> \o DoubleQuotes(text) \o <<Quote>>
       ELSE text

\* Array.prototype.join
RECURSIVE Join(_, _)
Join(parts, sep) ==
    IF parts = <<>> THEN <<>>
    ELSE IF Len(parts) = 1 THEN parts[1]
    ELSE parts[1] \o <<sep>> \o Join(Tail(parts), sep)

\* The tr elements of the table: the header row, then the body rows, hidden
\* ones included.
TableRows(t) ==
    (IF t.headers = <<>> THEN <<>>
     ELSE <<[i \in 1..Len(t.headers) |-> t.headers[i].text]>>)
    \o [i \in 1..Len(t.rows) |-> t.rows[i].cells]

\* exportTableToCSV(tableId, filename) on the table t: the file downloaded.
exportTableToCSV(t) ==
    IF ~t.exists THEN <<>>
    ELSE LET rows == TableRows(t)
             csv == [i \in 1..Len(rows) |->
                        Join([j \in 1..Len(rows[i]) |-> CsvField(rows[i][j])], ",")]
         IN <<Join(csv, NewLine)>>

Header(text) == [text |-> text, class |-> ""]

Row(cells) == [cells |-> cells, display |-> ""]

NoTable ==
    [exists |-> FALSE, tbody |-> FALSE, headers |-> <<>>, rows |-> <<>>,
     sortColumn |-> <<>>, sortDirection |-> <<>>]

\* A table with a header row only: the parser creates no tbody.
HeadOnlyTable ==
    [NoTable EXCEPT !.exists = TRUE,
                    !.headers = <<Header(<<"N">>), Header(<<"Q">>)>>]

\* Two columns, a name and a number, in every row.
FullTable ==
    [HeadOnlyTable EXCEPT
       !.tbody = TRUE,
       !.rows = <<Row(<<<<"B">>, <<"2">>>>),
                  Row(<<<<"a">>, <<"1", ",", "0", "0", "0">>>>),
                  Row(<<<<"c", Quote>>, <<" ", "1", "0">>>>)>>]

\* A row with one cell spanning the columns.
ShortRowTable ==
    [FullTable EXCEPT
       !.rows = <<Row(<<<<"b">>, <<"2">>>>), Row(<<<<"n">>>>)>>]

Tables == {NoTable, HeadOnlyTable, FullTable, ShortRowTable}

ColumnIndexes == {0, 1}

FilterValues == {<<>>, <<"a">>, <<"B">>, <<"1", "0">>}

TableInit ==
    /\ table \in Tables
    /\ download = <<>>
    /\ thrown = "none"

SortTable ==
    \E columnIndex \in ColumnIndexes, isNumeric \in BOOLEAN :
        /\ table' = sortTable(table, columnIndex, isNumeric).table
        /\ thrown' = sortTable(table, columnIndex, isNumeric).thrown
        /\ UNCHANGED <<envVars, lifeVars, timerVars, inflight, viewVars, lastGood,
                       quantity, download>>

FilterTable ==
    \E filterValue \in FilterValues, columnIndex \in ColumnIndexes :
        /\ table' = filterTable(table, filterValue, columnIndex).table
        /\ thrown' = filterTable(table, filterValue, columnIndex).thrown
        /\ UNCHANGED <<envVars, lifeVars, timerVars, inflight, viewVars, lastGood,
                       quantity, download>>

ExportTableToCSV ==
    /\ download' = exportTableToCSV(table)
    /\ thrown' = "none"
    /\ UNCHANGED <<envVars, lifeVars, timerVars, inflight, viewVars, lastGood,
                   quantity, table>>

\* ----------------------------------------------------------- specifications
Init == PollerInit /\ QuantityInit /\ TableInit

\* The poller while the browser stays online on the dashboard.
PollInit ==
    /\ Init
    /\ path = "/"
    /\ onLine = TRUE
    /\ quantity.max = <<>>
    /\ table = NoTable

PollNext ==
    \/ DOMContentLoaded
    \/ TimerTick
    \/ ManualRefresh
    \/ PollSettles
    \/ FadeTimeout

SpecPoll == PollInit /\ [][PollNext]_vars

\* The lifecycle listeners and the polls they start and stop, on a page
\* without status elements.
LifecycleInit ==
    /\ Init
    /\ elements = {}
    /\ locale = "en-US"
    /\ quantity.max = <<>>
    /\ table = NoTable

LifecycleNext ==
    \/ DOMContentLoaded
    \/ Online
    \/ Offline
    \/ BeforeUnload
    \/ TimerTick
    \/ ManualRefresh
    \/ PollSettles

SpecLifecycle == LifecycleInit /\ [][LifecycleNext]_vars

\* A quantity field of the dashboard.
QuantityFieldInit ==
    /\ Init
    /\ path = "/"
    /\ onLine = TRUE
    /\ elements = Selectors
    /\ locale = "en-US"
    /\ table = NoTable

QuantityNext ==
    \/ DOMContentLoaded
    \/ QuantityEdited

SpecQuantity == QuantityFieldInit /\ [][QuantityNext]_vars

\* The table utilities, called from the page's controls.
TableUtilInit ==
    /\ Init
    /\ path = "/"
    /\ onLine = TRUE
    /\ elements = Selectors
    /\ locale = "en-US"
    /\ quantity.max = <<>>

TableNext ==
    \/ SortTable
    \/ FilterTable
    \/ ExportTableToCSV

SpecTable == TableUtilInit /\ [][TableNext]_vars

\* ------------------------------------------------------------------ claims
\* The number a counter element shows to its reader: the digits of its text,
\* the grouping separators of the locale aside.
ShownCount(text) == DigitsToNat(SelectSeq(text, IsDigit))

CountField(data, sel) ==
    IF sel = ".offers-count" THEN data.offers_count ELSE data.requests_count

\* C1: once a poll has completed successfully, each counter element that
\* exists shows the offers_count, respectively the requests_count, of the
\* most recently completed successful poll.
C1_CountersShowLatestSuccessfulPoll ==
    lastGood # <<>> =>
        /\ ".offers-count" \in elements =>
               ShownCount(dom.count[".offers-count"]) = lastGood[1].offers
        /\ ".requests-count" \in elements =>
               ShownCount(dom.count[".requests-count"]) = lastGood[1].requests

\* C2: a poll that fails (network error, non-2xx status, body that is not
\* JSON, JSON not of the /api/status shape) sets the connection state to
\* false, shows the indicator as disconnected and changes no other displayed
\* field: player, location, the two counters and the last-update time.
C2_FailedPollOnlyMarksDisconnected ==
    [][\A origin \in Origins, r \in Responses :
          (IsFailure(r) /\ PollCompletes(origin, r)) =>
              /\ connectionStatus' = "false"
              /\ ".connection-indicator" \in elements =>
                     dom'.indicator = "Disconnected"
              /\ dom'.player = dom.player
              /\ dom'.location = dom.location
              /\ dom'.count = dom.count
              /\ dom'.time = dom.time]_vars

\* C3: on an allow-listed route, after an 'offline' signal no polling timer
\* is running until the next 'online' signal, and when the 'online' listener
\* has run a polling timer is running.
C3_TimerStopsOfflineRunsOnline ==
    [][(path \in AutoRefreshPages) =>
          /\ (signalled' /\ ~onLine') => timers' = {}
          /\ Online => timers' # {}]_vars

\* C4: on a route other than '/' and '/arbitrage' no polling timer is ever
\* armed, autoRefreshInterval stays null, and no poll is issued by a timer:
\* only a manual refresh issues one.
C4_NoPollingOffTheAllowList ==
    path \notin AutoRefreshPages =>
        /\ timers = {}
        /\ autoRefreshInterval = 0
        /\ inflight["timer"] = 0

\* A page off the allow list that has seen DOMContentLoaded and an 'online'
\* event, with a manual refresh pending.
C4_Witness ==
    /\ path \notin AutoRefreshPages
    /\ loaded
    /\ signalled
    /\ onLine
    /\ inflight["manual"] > 0

\* C5: when updateStatus renders a snapshot whose offers_count and
\* requests_count equal the values the counter elements show, the text of the
\* counter elements stays as it is and the 'fade-in' class is not added.
C5_UnchangedCountersAreLeftAlone ==
    [][\A origin \in Origins, r \in Responses :
          (/\ r.net
           /\ r.json
           /\ PollCompletes(origin, r)
           /\ \A sel \in CounterSelectors \cap elements :
                  /\ CountField(r.data, sel) # <<>>
                  /\ CountField(r.data, sel)[1] = ShownCount(dom.count[sel]))
          => \A sel \in CounterSelectors \cap elements :
                 /\ dom'.count[sel] = dom.count[sel]
                 /\ dom'.fade[sel] = dom.fade[sel]]_vars

SortDirectionClass(dir) == IF dir = "asc" THEN "sort-asc" ELSE "sort-desc"

\* The direction the claim expects of a sortTable call on column c: ascending
\* on the first call and on a column other than the remembered one, otherwise
\* the opposite of the remembered direction.
ExpectedDirection(c) ==
    IF table.sortColumn = <<NumToStr(c)>> /\ table.sortDirection = <<"asc">>
    THEN "desc" ELSE "asc"

\* C6: every sortTable call on a table sorts in the direction that alternates
\* for the remembered column (ascending first, ascending for another column),
\* remembers it, and leaves the sort-direction indicator of that direction on
\* the header cell of the sorted column and on no other header cell.
C6_SortDirectionAlternates ==
    [][\A c \in ColumnIndexes, n \in BOOLEAN :
          (/\ table.exists
           /\ table' = sortTable(table, c, n).table
           /\ thrown' = sortTable(table, c, n).thrown
           /\ UNCHANGED download)
          => /\ table'.sortColumn = <<NumToStr(c)>>
             /\ table'.sortDirection = <<ExpectedDirection(c)>>
             /\ \A i \in 1..Len(table'.headers) :
                    table'.headers[i].class =
                        IF i - 1 = c THEN SortDirectionClass(ExpectedDirection(c))
                        ELSE ""]_<<table, thrown>>

\* Number(text) is an integer: an optional sign and digits.
IsIntegerText(s) ==
    /\ s # <<>>
    /\ LET body == IF Head(s) = "-" THEN Tail(s) ELSE s
       IN body # <<>> /\ \A i \in 1..Len(body) : IsDigit(body[i])

\* C7: after the input handler of a quantity field has run, the value of the
\* field is a number in 1..max (at least 1 when there is no max).
C7_QuantityIsClampedToRange ==
    [][QuantityEdited =>
          /\ IsIntegerText(quantity'.value)
          /\ parseInt(quantity'.value).val >= 1
          /\ IsIntegerText(quantity'.max) =>
                 parseInt(quantity'.value).val <= parseInt(quantity'.max).val]_vars

\* C8: no table utility ends with an exception, whether or not the table,
\* its tbody or the addressed cell of a row exists.
C8_NoOperationThrows == thrown = "none"

\* C9: the completion of a successful poll and of a manual refresh overwrites
\* the last-update timestamp, and the completion of a timer-driven poll that
\* fails leaves it as it is.
C9_TimestampFollowsPolls ==
    [][\A origin \in Origins, r \in Responses :
          PollCompletes(origin, r) =>
              /\ (~IsFailure(r) \/ origin = "manual") =>
                     lastUpdateTime' # lastUpdateTime
              /\ (IsFailure(r) /\ origin = "timer") =>
                     lastUpdateTime' = lastUpdateTime]_vars

\* C10: at most one polling interval timer is armed at any time, and it is
\* the one autoRefreshInterval holds: no second timer is armed and no handle
\* of an armed timer is overwritten.
C10_AtMostOneTimer ==
    /\ Cardinality(timers) <= 1
    /\ timers \subseteq {autoRefreshInterval}

====
